---- MODULE Spec2Model ----
(***************************************************************************)
(* A model of the PDF-to-LLM analysis pipeline of HackEdu-Back.           *)
(*                                                                         *)
(*   Spec        AnalysisService.analyzeEvaluation: one whole-evaluation  *)
(*               run, its concurrent group tasks and the rows it persists *)
(*   SpecChunks  PdfController.analyzeInChunks: the sequential chunk loop *)
(*                                                                         *)
(* Every await of the code is a step boundary: the code between two       *)
(* awaits runs atomically on the single JavaScript thread.  A call to the *)
(* database, to object storage or to a model provider either returns or   *)
(* throws, and which of the two is chosen by the environment.             *)
(***************************************************************************)
EXTENDS Bags, FiniteSets, Integers, Sequences, TLC

\* ------------------------------------------------------------------------
\* Bounds of the model
\* ------------------------------------------------------------------------
\* groups of the evaluation
NumGroups == 2
\* recommendation items a model response carries at most
MaxRecs == 2
\* rubrics of the evaluation (an evaluation always has its primary rubric)
NumRubrics == 2
\* submissions a group accumulates at most
MaxUploads == 3

Groups == 1..NumGroups
Rubrics == 1..NumRubrics

\* A nullable column or variable is a sequence of length 0 or 1.
Null == <<>>
Some(v) == <<v>>

\* ------------------------------------------------------------------------
\* State
\* ------------------------------------------------------------------------
VARIABLES
    \* --- database, as far as analyzeEvaluation reads it ---
    evalExists,      \* the Evaluation row with the requested id exists
    hasSubmission,   \* [Groups -> BOOLEAN]: the group has at least one Submission
    uploadedAt,      \* [Groups -> set of times]: uploadedAt of the group's Submissions
    rubricPdfUrl,    \* [Rubrics -> BOOLEAN]: the rubric carries a source PDF
    \* --- tables analyzeEvaluation writes (bags of rows) ---
    analyses,
    analysisResults,
    recommendations,
    \* --- the analyzeEvaluation call ---
    pc,              \* position of the orchestrator
    evaluation,      \* what findUnique returned: Null or Some(snapshot)
    analysis,        \* id of the Analysis the call created: Null or Some(id)
    rubricContext,   \* the context built so far, one section per rubric
    task,            \* [Groups -> task record]: the promise of each group
    outcome,         \* what the call returned or threw
    now,             \* the clock
    \* --- calls to the collaborators, counted ---
    fetches,         \* [Groups -> Nat]: submission documents fetched
    rubricFetches,   \* [Rubrics -> Nat]: rubric documents fetched
    modelCalls,      \* [Groups -> Nat]: structured model calls issued
    \* --- the analyzeInChunks request ---
    request,         \* the upload: file stored?, prompt, provider
    cpc,             \* position of the handler
    cleanedText,     \* the extracted text after cleanText
    chunks,          \* the chunks splitTextIntoChunks returned
    issued,          \* provider requests issued so far
    observed,        \* provider responses or errors observed so far
    chunkResponses,  \* the responses collected so far
    fileOnDisk,      \* the uploaded file is still in ./uploads
    unlinkCalls,     \* calls of fs.unlink analyzeInChunks made
    creply,          \* what the handler returned or threw
    \* --- a call of one of PdfService's text functions ---
    input,           \* the text passed in
    param,           \* the chunkSize or maxTokens passed in, 0 if none
    applied,         \* which function was called, "none" before the call
    ranges,          \* the [from, to) ranges splitTextIntoChunks cut
    result,          \* what the function returned: a text or a list of chunks
    \* --- a call of S3PdfService.parseS3Url ---
    target,          \* the bucket and key the caller means
    urlForm,         \* which of the URL forms the caller wrote
    url,             \* the URL passed in
    location,        \* Null, or what parseS3Url returned or threw
    \* --- a document handed to one of the extraction entry points ---
    doc,             \* the document: its size in bytes and its first bytes
    entry,           \* the entry point called
    dpc,             \* position inside the entry point
    parserSaw,       \* the bytes were handed to the PDF parser
    dreply,          \* what the entry point returned or threw
    \* --- the primary rubric of one evaluation and its RubricItem rows ---
    uniqueItemOrder, \* the database rejects a second row with the same order
    rubricExists,    \* createEvaluation has created the evaluation and its rubric
    rubricItems,     \* the RubricItem rows of the rubric, in creation order
    evalReply,       \* how the last createEvaluation/updateEvaluation ended
    \* --- a call of AnalysisService.calculateMaxScoreFromContext ---
    scoreContext,    \* the rubric context passed in
    maxScore,        \* Null, or the number returned
    \* --- a request to extract, analyze-with-openai or analyze-with-gemini ---
    endpoint,        \* the endpoint called
    upload,          \* the request: whether a file and a prompt came with it
    upc,             \* position inside the handler
    stored,          \* the uploaded file is on disk
    unlinks,         \* calls of fs.unlink the handler made
    ureply,          \* what the handler returned or threw
    \* --- the loop of one splitTextIntoChunks call, iteration by iteration ---
    splitInput,      \* the text
    splitSize,       \* the chunkSize
    lpc,             \* position: in the loop or returned
    cursor,          \* currentIndex
    pushed           \* chunks pushed so far

dbVars == <<evalExists, hasSubmission, uploadedAt, rubricPdfUrl>>
tableVars == <<analyses, analysisResults, recommendations>>
callVars == <<pc, evaluation, analysis, rubricContext, task, outcome, now>>
countVars == <<fetches, rubricFetches, modelCalls>>
analysisVars == <<dbVars, tableVars, callVars, countVars>>
chunkVars == <<request, cpc, cleanedText, chunks, issued, observed, chunkResponses,
               fileOnDisk, unlinkCalls, creply>>
textVars == <<input, param, applied, ranges, result>>
urlVars == <<target, urlForm, url, location>>
docVars == <<doc, entry, dpc, parserSaw, dreply>>
rubricVars == <<uniqueItemOrder, rubricExists, rubricItems, evalReply>>
scoreVars == <<scoreContext, maxScore>>
uploadVars == <<endpoint, upload, upc, stored, unlinks, ureply>>
loopVars == <<splitInput, splitSize, lpc, cursor, pushed>>
extraVars == <<uploadVars, loopVars>>
otherVars == <<rubricVars, scoreVars, extraVars>>
serviceVars == <<textVars, urlVars, docVars, otherVars>>
vars == <<analysisVars, chunkVars, serviceVars>>

\* ------------------------------------------------------------------------
\* Text: a string is the sequence of its characters
\* ------------------------------------------------------------------------
\* longest text the extraction yields in the model
MaxTextLen == 5
\* the chunk size analyzeInChunks passes to splitTextIntoChunks, scaled down
\* from 10000 to the size of the model's texts
ChunkSize == 2

\* characters matched by \s
Whitespace == {" ", "\n", "\t"}
Alphabet == {"a", ".", " ", "\n"}
Texts == UNION {[1..n -> Alphabet] : n \in 0..MaxTextLen}

\* text.substring(from, to) with 0-based indices, to clamped to the length
Substring(text, from, to) ==
    SubSeq(text, from + 1, IF to > Len(text) THEN Len(text) ELSE to)

\* text.lastIndexOf(ch, fromIndex): the greatest 0-based index <= fromIndex
\* holding ch, or -1
LastIndexOf(text, ch, fromIndex) ==
    LET hits == {i \in 0..(Len(text) - 1) : i <= fromIndex /\ text[i + 1] = ch}
    IN  IF hits = {} THEN -1 ELSE CHOOSE i \in hits : \A j \in hits : j <= i

Max(a, b) == IF a >= b THEN a ELSE b

\* text.trim()
RECURSIVE TrimStart(_)
TrimStart(text) ==
    IF text # <<>> /\ Head(text) \in Whitespace THEN TrimStart(Tail(text)) ELSE text
RECURSIVE TrimEnd(_)
TrimEnd(text) ==
    IF text # <<>> /\ text[Len(text)] \in Whitespace
    THEN TrimEnd(SubSeq(text, 1, Len(text) - 1))
    ELSE text
Trim(text) == TrimEnd(TrimStart(text))

\* The variant of the first replace that matches \s\s, two whitespace
\* characters at a time.
RECURSIVE CollapsePairs(_)
CollapsePairs(text) ==
    IF Len(text) < 2 THEN text
    ELSE IF text[1] \in Whitespace /\ text[2] \in Whitespace
         THEN <<" ">> \o CollapsePairs(SubSeq(text, 3, Len(text)))
         ELSE <<Head(text)>> \o CollapsePairs(Tail(text))

\* text.replace(/\s+/g, ' ')
RECURSIVE CollapseWhitespace(_)
CollapseWhitespace(text) ==
    IF text = <<>> THEN <<>>
    ELSE IF Head(text) \in Whitespace
         THEN <<" ">> \o CollapseWhitespace(TrimStart(text))
         ELSE <<Head(text)>> \o CollapseWhitespace(Tail(text))

\* text.replace(/\n\s*\n/g, '\n\n'): a match starts at a line break and,
\* \s* being greedy, ends at the last line break of the whitespace run
RECURSIVE CollapseBlankLines(_)
CollapseBlankLines(text) ==
    IF text = <<>> THEN <<>>
    ELSE LET rest == Tail(text)
             run == Len(rest) - Len(TrimStart(rest))
             ends == {j \in 1..run : rest[j] = "\n"}
         IN  IF Head(text) = "\n" /\ ends # {}
             THEN LET last == CHOOSE j \in ends : \A i \in ends : i <= j
                  IN  <<"\n", "\n">> \o CollapseBlankLines(SubSeq(rest, last + 1, Len(rest)))
             ELSE <<Head(text)>> \o CollapseBlankLines(rest)

\* PdfService.cleanText
cleanText(text) == Trim(CollapseBlankLines(CollapseWhitespace(text)))

\* One iteration of the loop of splitTextIntoChunks: the end index of the
\* chunk that starts at currentIndex. (The variant ends the chunk before the
\* boundary character.)
ChunkEndBeforeBreak(text, chunkSize, currentIndex) ==
    LET endIndex == currentIndex + chunkSize
    IN  IF endIndex < Len(text)
        THEN LET lastPeriod == LastIndexOf(text, ".", endIndex)
                 lastNewline == LastIndexOf(text, "\n", endIndex)
                 breakPoint == Max(lastPeriod, lastNewline)
             IN  IF breakPoint >= currentIndex THEN breakPoint ELSE endIndex
        ELSE endIndex
ChunkEnd(text, chunkSize, currentIndex) ==
    LET endIndex == currentIndex + chunkSize
    IN  IF endIndex < Len(text)
        THEN LET lastPeriod == LastIndexOf(text, ".", endIndex)
                 lastNewline == LastIndexOf(text, "\n", endIndex)
                 breakPoint == Max(lastPeriod, lastNewline)
             IN  IF breakPoint > currentIndex THEN breakPoint + 1 ELSE endIndex
        ELSE endIndex

\* The [currentIndex, endIndex) ranges the loop cuts, in order: the next
\* range starts at endIndex. (The variant starts it one character later.)
RECURSIVE SplitCutsSkipping(_, _, _)
SplitCutsSkipping(text, chunkSize, currentIndex) ==
    IF currentIndex < Len(text)
    THEN LET endIndex == ChunkEnd(text, chunkSize, currentIndex)
         IN  <<[from |-> currentIndex, to |-> endIndex]>>
                 \o SplitCutsSkipping(text, chunkSize, endIndex + 1)
    ELSE <<>>
RECURSIVE SplitCuts(_, _, _)
SplitCuts(text, chunkSize, currentIndex) ==
    IF currentIndex < Len(text)
    THEN LET endIndex == ChunkEnd(text, chunkSize, currentIndex)
         IN  <<[from |-> currentIndex, to |-> endIndex]>>
                 \o SplitCuts(text, chunkSize, endIndex)
    ELSE <<>>

\* PdfService.splitTextIntoChunks
splitTextIntoChunks(text, chunkSize) ==
    LET cuts == SplitCuts(text, chunkSize, 0)
    IN  [i \in 1..Len(cuts) |-> Trim(Substring(text, cuts[i].from, cuts[i].to))]

EvaluationId == "E1"
AnalysisId == "A1"

\* ------------------------------------------------------------------------
\* Group tasks: the async callback of evaluation.groups.map
\* ------------------------------------------------------------------------
\* st     where the task is: "idle" (not started), "skipped", "fetching",
\*        "modelCall", "saveResult", "saveRec", "ok", "failed"
\* recs   number of recommendation items of the model's response
\* k      index of the recommendation whose create is in flight
\* cause  the step that threw, for a failed task
\* context  the rubric context passed to the task's model call, once issued
IdleTask == [st |-> "idle", recs |-> 0, k |-> 0, cause |-> "none", context |-> <<>>,
             fetched |-> 0]

Settled == {"skipped", "ok", "failed"}

\* Promise.all over the group promises has resolved.
AnySettled == \E g \in Groups : task[g].st \in Settled
AllSettled == \A g \in Groups : task[g].st \in Settled

\* if (!group.submissions || group.submissions.length === 0) return null
NeverSkipped(snapshot, g) == FALSE
HasNoSubmissions(snapshot, g) == ~snapshot.groups[g]

\* submissions: { orderBy: { uploadedAt: 'desc' }, take: 1 }: of the group's
\* submissions the query returns the one uploaded last, or none.
Latest(times) == CHOOSE t \in times : \A u \in times : u <= t

OldestFirst(times) ==
    IF times = {} THEN <<>> ELSE <<CHOOSE t \in times : \A u \in times : t <= u>>

LatestFirst(times) == IF times = {} THEN <<>> ELSE <<Latest(times)>>

\* const latestSubmission = group.submissions[0]; 0 stands for undefined
FirstSubmission(submissions) == IF submissions = <<>> THEN 0 ELSE submissions[1]

\* The section prepareRubricContext adds for a rubric: its title, the text
\* of its PDF if that was extracted, its items.
RubricSection(r, withPdf) ==
    [rubric |-> r, title |-> TRUE, pdf |-> withPdf, items |-> TRUE]

\* catch (error) { logger.warn(...) } around the extraction of a rubric's
\* PDF: the loop goes on with the items of the rubric. (The variant lets
\* the error leave prepareRubricContext.)
RethrowRubricPdfError(r) == [sections |-> <<>>, threw |-> TRUE]
CatchRubricPdfError(r) == [sections |-> <<RubricSection(r, FALSE)>>, threw |-> FALSE]

\* analyzeGroupWithOpenAI(..., rubricContext, ...): every group callback
\* passes the one string prepareRubricContext returned. (The variant gives
\* each group a context of its own, in which only group 1 sees the PDFs.)
OwnContext(ctx, g) ==
    [i \in 1..Len(ctx) |-> [ctx[i] EXCEPT !.pdf = @ /\ g = 1]]
SharedContext(ctx, g) == ctx

\* if (!evaluation) throw new Error('Evaluación no encontrada')
NeverMissing(found) == FALSE
EvaluationMissing(found) == found = Null

\* prisma.analysisResult.create: a new row on every call
UpsertAnalysisResult(table, row) ==
    LET same == {r \in BagToSet(table) :
                    r.analysisId = row.analysisId /\ r.rubricId = row.rubricId}
    IN  IF same = {}
        THEN table (+) SetToBag({row})
        ELSE LET old == CHOOSE r \in same : TRUE
             IN  (table (-) SetToBag({old}))
                 (+) SetToBag({[old EXCEPT !.writers = @ \cup row.writers]})
CreateAnalysisResult(table, row) == table (+) SetToBag({row})

\* prisma.recommendation.create: a new row on every call
CreateRecommendation(table, row) == table (+) SetToBag({row})

\* evaluation.rubrics[0]?.id
FirstRubricId == "R1"

\* The payload columns of a row (status, score, feedback; priority, summary,
\* details) are copied from the model's response: `result |-> g` stands for
\* the payload of the response of group g, `item |-> k` for the payload of
\* its k-th recommendation.  `writers` is not a column: it records the
\* group tasks that wrote the row.
ResultRow(g) ==
    [analysisId |-> AnalysisId, rubricId |-> FirstRubricId, result |-> g, writers |-> {g}]
RecommendationRow(g, k) ==
    [analysisId |-> AnalysisId, groupId |-> g, item |-> k, writers |-> {g}]

\* catch (error) { logger.error(...); return null } of the group callback
RethrowGroupError(g, cause) ==
    /\ task' = [task EXCEPT ![g] = [@ EXCEPT !.st = "failed", !.cause = cause]]
    /\ pc' = IF pc = "awaiting" THEN "threw" ELSE pc
    /\ outcome' = IF pc = "awaiting"
                  THEN [success |-> FALSE, error |-> "GroupError", analysisId |-> Null]
                  ELSE outcome
CatchGroupError(g, cause) ==
    /\ task' = [task EXCEPT ![g] = [@ EXCEPT !.st = "failed", !.cause = cause]]
    /\ UNCHANGED <<pc, outcome>>

Tick == now' = now + 1

Pending == [success |-> FALSE, error |-> "pending", analysisId |-> Null]
Failure(e) == [success |-> FALSE, error |-> e, analysisId |-> Null]
Success(id) == [success |-> TRUE, error |-> "none", analysisId |-> Some(id)]

\* ------------------------------------------------------------------------
\* Initial states
\* ------------------------------------------------------------------------
\* No analyzeInChunks request.
ChunksIdle ==
    /\ request = [file |-> FALSE, prompt |-> "", provider |-> ""]
    /\ cpc = "off"
    /\ cleanedText = <<>>
    /\ chunks = <<>>
    /\ issued = <<>>
    /\ observed = 0
    /\ chunkResponses = <<>>
    /\ fileOnDisk = FALSE
    /\ unlinkCalls = 0
    /\ creply = Pending

\* No call of a text function.
TextIdle ==
    /\ input = <<>>
    /\ param = 0
    /\ applied = "off"
    /\ ranges = <<>>
    /\ result = <<>>

\* No call of parseS3Url.
UrlIdle ==
    /\ target = [bucket |-> <<>>, key |-> <<>>]
    /\ urlForm = "off"
    /\ url = <<>>
    /\ location = Null

\* No document being extracted.
DocsIdle ==
    /\ doc = [size |-> 0, head |-> <<>>]
    /\ entry = "off"
    /\ dpc = "off"
    /\ parserSaw = FALSE
    /\ dreply = "none"

\* No evaluation being created or updated.
RubricIdle ==
    /\ uniqueItemOrder = FALSE
    /\ rubricExists = FALSE
    /\ rubricItems = <<>>
    /\ evalReply = "none"

\* No call of calculateMaxScoreFromContext.
ScoreIdle ==
    /\ scoreContext = <<>>
    /\ maxScore = Null

\* No request to a single-call upload endpoint.
UploadIdle ==
    /\ endpoint = "none"
    /\ upload = [file |-> FALSE, prompt |-> ""]
    /\ upc = "off"
    /\ stored = FALSE
    /\ unlinks = 0
    /\ ureply = Pending

\* No splitTextIntoChunks call followed step by step.
LoopIdle ==
    /\ splitInput = <<>>
    /\ splitSize = 0
    /\ lpc = "off"
    /\ cursor = 0
    /\ pushed = 0

ExtrasIdle == UploadIdle /\ LoopIdle

OthersIdle == RubricIdle /\ ScoreIdle /\ ExtrasIdle

ServicesIdle == TextIdle /\ UrlIdle /\ DocsIdle /\ OthersIdle

\* No analyzeEvaluation call.
AnalysisIdle ==
    /\ analyses = EmptyBag
    /\ analysisResults = EmptyBag
    /\ recommendations = EmptyBag
    /\ pc = "start"
    /\ evaluation = Null
    /\ analysis = Null
    /\ rubricContext = <<>>
    /\ task = [g \in Groups |-> IdleTask]
    /\ outcome = Pending
    /\ now = 1
    /\ fetches = [g \in Groups |-> 0]
    /\ rubricFetches = [r \in Rubrics |-> 0]
    /\ modelCalls = [g \in Groups |-> 0]

Init ==
    /\ evalExists \in BOOLEAN
    /\ hasSubmission \in [Groups -> BOOLEAN]
    /\ uploadedAt = [g \in Groups |-> IF hasSubmission[g] THEN {1} ELSE {}]
    /\ rubricPdfUrl \in [Rubrics -> BOOLEAN]
    /\ AnalysisIdle
    /\ ChunksIdle
    /\ ServicesIdle

\* ------------------------------------------------------------------------
\* analyzeEvaluation, the orchestrator
\* ------------------------------------------------------------------------
\* const evaluation = await prisma.evaluation.findUnique(...);
\* if (!evaluation) throw ...
FindEvaluation ==
    /\ pc = "start"
    /\ \E threw \in BOOLEAN :
         LET found == IF evalExists
                      THEN Some([groups |-> hasSubmission, rubrics |-> rubricPdfUrl,
                                 submissions |-> [g \in Groups |-> LatestFirst(uploadedAt[g])],
                                 present |-> uploadedAt])
                      ELSE Null
         IN  IF threw
             THEN /\ pc' = "threw"
                  /\ outcome' = Failure("Persistence")
                  /\ UNCHANGED evaluation
             ELSE /\ evaluation' = found
                  /\ IF EvaluationMissing(found)
                     THEN pc' = "threw" /\ outcome' = Failure("NotFound")
                     ELSE pc' = "create" /\ UNCHANGED outcome
    /\ Tick
    /\ UNCHANGED <<dbVars, tableVars, analysis, rubricContext, task, countVars, chunkVars, serviceVars>>

\* const analysis = await prisma.analysis.create(...)
CreateAnalysis ==
    /\ pc = "create"
    /\ \E threw \in BOOLEAN :
         IF threw
         THEN /\ pc' = "threw"
              /\ outcome' = Failure("Persistence")
              /\ UNCHANGED <<analyses, analysis>>
         ELSE /\ analyses' = analyses (+) SetToBag({[id |-> AnalysisId,
                                                     evaluationId |-> EvaluationId,
                                                     engine |-> "OPENAI",
                                                     startedAt |-> now,
                                                     endedAt |-> Null]})
              /\ analysis' = Some(AnalysisId)
              /\ pc' = "context"
              /\ UNCHANGED outcome
    /\ Tick
    /\ UNCHANGED <<dbVars, analysisResults, recommendations, evaluation, rubricContext,
                   task, countVars, chunkVars, serviceVars>>

\* One iteration of the loop of prepareRubricContext: the title, the text of
\* the rubric's PDF unless its extraction threw, the items.
PrepareRubricContext ==
    /\ pc = "context"
    /\ IF evaluation = Null   \* evaluation.rubrics of null: a TypeError
       THEN /\ pc' = "threw"
            /\ outcome' = Failure("TypeError")
            /\ UNCHANGED <<rubricContext, rubricFetches>>
       ELSE LET r == Len(rubricContext) + 1
                done == IF r = NumRubrics THEN "spawn" ELSE "context"
            IN  IF evaluation[1].rubrics[r]
                THEN /\ rubricFetches' = [rubricFetches EXCEPT ![r] = @ + 1]
                     /\ \E extracted \in BOOLEAN :
                           IF extracted
                           THEN /\ rubricContext' = Append(rubricContext,
                                                           RubricSection(r, TRUE))
                                /\ pc' = done
                                /\ UNCHANGED outcome
                           ELSE LET caught == CatchRubricPdfError(r)
                                IN  /\ rubricContext' = rubricContext \o caught.sections
                                    /\ pc' = IF caught.threw THEN "threw" ELSE done
                                    /\ outcome' = IF caught.threw
                                                  THEN Failure("Extraction")
                                                  ELSE outcome
                ELSE /\ UNCHANGED rubricFetches
                     /\ rubricContext' = Append(rubricContext, RubricSection(r, FALSE))
                     /\ pc' = done
                     /\ UNCHANGED outcome
    /\ Tick
    /\ UNCHANGED <<dbVars, tableVars, evaluation, analysis, task, fetches, modelCalls,
                   chunkVars, serviceVars>>

\* evaluation.groups.map(async (group) => ...): every callback runs up to its
\* first await; Promise.all then waits for all of them.
StartGroupTasks ==
    /\ pc = "spawn"
    /\ LET skip(g) == HasNoSubmissions(evaluation[1], g)
       IN  /\ task' = [g \in Groups |->
                         IF skip(g)
                         THEN [IdleTask EXCEPT !.st = "skipped"]
                         ELSE [IdleTask EXCEPT !.st = "fetching",
                                               !.fetched = FirstSubmission(evaluation[1].submissions[g])]]
           /\ fetches' = [g \in Groups |-> IF skip(g) THEN fetches[g] ELSE fetches[g] + 1]
    /\ pc' = "awaiting"
    /\ Tick
    /\ UNCHANGED <<dbVars, tableVars, evaluation, analysis, rubricContext, outcome,
                   rubricFetches, modelCalls, chunkVars, serviceVars>>

\* await Promise.all(analysisPromises);
\* await prisma.analysis.update({ data: { endedAt: new Date() } }); return {...}
FinishAnalysis ==
    /\ pc = "awaiting"
    /\ AllSettled
    /\ \E threw \in BOOLEAN :
         IF threw
         THEN /\ pc' = "threw"
              /\ outcome' = Failure("Persistence")
              /\ UNCHANGED analyses
         ELSE /\ analyses' = LET old == CHOOSE a \in BagToSet(analyses) : a.id = analysis[1]
                             IN  (analyses (-) SetToBag({old}))
                                 (+) SetToBag({[old EXCEPT !.endedAt = Some(now)]})
              /\ pc' = "returned"
              /\ outcome' = Success(analysis[1])
    /\ Tick
    /\ UNCHANGED <<dbVars, analysisResults, recommendations, evaluation, analysis,
                   rubricContext, task, countVars, chunkVars, serviceVars>>

\* ------------------------------------------------------------------------
\* analyzeEvaluation, the task of one group
\* ------------------------------------------------------------------------
\* const pdfText = await s3PdfService.extractTextFromS3Url(...); cleanText;
\* then analyzeGroupWithOpenAI issues openai.chat.completions.parse
FetchSubmission(g) ==
    /\ task[g].st = "fetching"
    /\ \E threw \in BOOLEAN :
         IF threw
         THEN CatchGroupError(g, "fetch") /\ UNCHANGED modelCalls
         ELSE /\ task' = [task EXCEPT ![g] =
                             [@ EXCEPT !.st = "modelCall",
                                       !.context = SharedContext(rubricContext, g)]]
              /\ modelCalls' = [modelCalls EXCEPT ![g] = @ + 1]
              /\ UNCHANGED <<pc, outcome>>
    /\ Tick
    /\ UNCHANGED <<dbVars, tableVars, evaluation, analysis, rubricContext, fetches,
                   rubricFetches, chunkVars, serviceVars>>

\* The provider answers: it throws, the answer does not parse against the
\* schema, or it is a record with n recommendations; saveAnalysisResults then
\* issues prisma.analysisResult.create.
ModelResponds(g) ==
    /\ task[g].st = "modelCall"
    /\ \/ CatchGroupError(g, "provider")
       \/ CatchGroupError(g, "schema")
       \/ \E n \in 0..MaxRecs :
            /\ task' = [task EXCEPT ![g] = [@ EXCEPT !.st = "saveResult", !.recs = n]]
            /\ UNCHANGED <<pc, outcome>>
    /\ Tick
    /\ UNCHANGED <<dbVars, tableVars, evaluation, analysis, rubricContext, countVars,
                   chunkVars, serviceVars>>

\* await prisma.analysisResult.create(...) returns or throws
SaveResult(g) ==
    /\ task[g].st = "saveResult"
    /\ \E threw \in BOOLEAN :
         IF threw
         THEN CatchGroupError(g, "saveResult") /\ UNCHANGED analysisResults
         ELSE /\ analysisResults' = CreateAnalysisResult(analysisResults, ResultRow(g))
              /\ task' = [task EXCEPT ![g] =
                             IF @.recs = 0
                             THEN [@ EXCEPT !.st = "ok"]
                             ELSE [@ EXCEPT !.st = "saveRec", !.k = 1]]
              /\ UNCHANGED <<pc, outcome>>
    /\ Tick
    /\ UNCHANGED <<dbVars, analyses, recommendations, evaluation, analysis, rubricContext,
                   countVars, chunkVars, serviceVars>>

\* await prisma.recommendation.create(...) of the k-th item returns or throws
SaveRecommendation(g) ==
    /\ task[g].st = "saveRec"
    /\ \E threw \in BOOLEAN :
         IF threw
         THEN CatchGroupError(g, "saveRec") /\ UNCHANGED recommendations
         ELSE /\ recommendations' =
                     CreateRecommendation(recommendations, RecommendationRow(g, task[g].k))
              /\ task' = [task EXCEPT ![g] =
                             IF @.k = @.recs
                             THEN [@ EXCEPT !.st = "ok"]
                             ELSE [@ EXCEPT !.k = @ + 1]]
              /\ UNCHANGED <<pc, outcome>>
    /\ Tick
    /\ UNCHANGED <<dbVars, analyses, analysisResults, evaluation, analysis, rubricContext,
                   countVars, chunkVars, serviceVars>>

\* ------------------------------------------------------------------------
\* Reading the tables
\* ------------------------------------------------------------------------
InFlight == {"fetching", "modelCall", "saveResult", "saveRec"}

\* Rows a group task wrote.
ResultsWrittenBy(g) == {r \in BagToSet(analysisResults) : g \in r.writers}
RecommendationsWrittenBy(g) == {r \in BagToSet(recommendations) : g \in r.writers}

\* Rows of the Analysis a reader can attribute to a group: AnalysisResult has
\* no group column (analysisId, rubricId, status, score, feedback), so these
\* are the Recommendation rows carrying the group's id.
RowsAttributableTo(g) ==
    {r \in BagToSet(recommendations) : r.analysisId = AnalysisId /\ r.groupId = g}

Finished == pc \in {"returned", "threw"}
Completed == \E a \in BagToSet(analyses) : a.endedAt # Null

GroupStep(g) ==
    FetchSubmission(g) \/ ModelResponds(g) \/ SaveResult(g) \/ SaveRecommendation(g)

\* ------------------------------------------------------------------------
\* Claims about analyzeEvaluation
\* ------------------------------------------------------------------------

\* C1: endedAt of the Analysis is non-null only in states where every group
\* task of the run has settled (skipped, succeeded, or failed and caught);
\* no task is then in flight or not yet started.
C1_EndedAtOnlyAfterAllSettled ==
    \A a \in BagToSet(analyses) :
        a.endedAt # Null => \A g \in Groups : task[g].st \in Settled

\* C1 witness: the run completed after one task failed and another succeeded.
C1_Witness ==
    /\ Completed
    /\ \E g \in Groups : task[g].st = "failed"
    /\ \E g \in Groups : task[g].st = "ok"

\* C2: a group task that fails, at whatever step, leaves every other task
\* able to take its next step; the call never throws because of a group (it
\* throws only for the lookup, the creation or the final update of the
\* Analysis), and when it returns it returns success with the analysis id,
\* every task having reached its own outcome.
C2_GroupFailureIsolated ==
    /\ \A g \in Groups : task[g].st \in InFlight => ENABLED GroupStep(g)
    /\ pc = "threw" => outcome.error \in {"NotFound", "Persistence"}
    /\ pc = "returned" =>
          /\ outcome = Success(AnalysisId)
          /\ \A g \in Groups : task[g].st \in Settled
          /\ \A g \in Groups : evaluation[1].groups[g] => task[g].st \in {"ok", "failed"}

\* C2 witness: the call returned success although a group failed at each of
\* two different steps, or one failed and another succeeded with its rows.
C2_Witness ==
    /\ pc = "returned"
    /\ outcome.success
    /\ \E g, h \in Groups :
          /\ task[g].st = "failed"
          /\ task[h].st = "ok"
          /\ task[h].recs > 0
          /\ Cardinality(RecommendationsWrittenBy(h)) = task[h].recs

\* C3 (as claimed): once the call has finished, the Analysis it created is
\* COMPLETED (endedAt set); the finite form of "eventually COMPLETED".
C3_FinishedAnalysisIsCompleted ==
    (Finished /\ analysis # Null) => Completed

\* C4 (as claimed): a group whose attempt threw has written no AnalysisResult
\* row and no Recommendation row.
C4_FailedGroupLeavesNoRows ==
    \A g \in Groups :
        task[g].st = "failed" =>
            ResultsWrittenBy(g) = {} /\ RecommendationsWrittenBy(g) = {}

\* C5 (as claimed): a group that succeeded has exactly one AnalysisResult row
\* and one Recommendation row per returned item, tagged with its id and the
\* analysis id; and after a completed run the Analysis has as many
\* AnalysisResult rows as groups succeeded.
C5_RowsMatchSucceededGroups ==
    /\ \A g \in Groups :
          task[g].st = "ok" =>
            /\ CopiesIn(ResultRow(g), analysisResults) = 1
            /\ ResultsWrittenBy(g) = {ResultRow(g)}
            /\ RecommendationsWrittenBy(g) =
                   {RecommendationRow(g, k) : k \in 1..task[g].recs}
            /\ \A k \in 1..task[g].recs :
                   CopiesIn(RecommendationRow(g, k), recommendations) = 1
    /\ Completed =>
          BagCardinality(analysisResults)
             = Cardinality({g \in Groups : task[g].st = "ok"})

\* C6: a group without submissions causes no document fetch, no model call
\* and no row, its task is settled as soon as the tasks are started, and
\* when no group has a submission the final update can be issued at once.
C6_GroupWithoutSubmissionIsInert ==
    /\ \A g \in Groups :
          (evaluation # Null /\ ~evaluation[1].groups[g]) =>
            /\ fetches[g] = 0
            /\ modelCalls[g] = 0
            /\ ResultsWrittenBy(g) = {}
            /\ RecommendationsWrittenBy(g) = {}
            /\ RowsAttributableTo(g) = {}
            /\ task[g].st \in {"idle", "skipped"}
            /\ pc \in {"awaiting", "returned"} => task[g].st = "skipped"
    /\ (pc = "awaiting" /\ \A g \in Groups : ~evaluation[1].groups[g])
          => ENABLED FinishAnalysis

\* C6 witness: no group has a submission and the Analysis is completed.
C6_Witness ==
    /\ \A g \in Groups : ~hasSubmission[g]
    /\ pc = "returned"
    /\ Completed

C8_NoRowsIffSkippedOrFailed ==
    Completed =>
        \A g \in Groups :
            (RowsAttributableTo(g) = {}) <=> (task[g].st \in {"skipped", "failed"})

\* What the tables hold, computed from how far each task got alone.
SavedRecommendations(g) ==
    CASE task[g].st = "ok" -> task[g].recs
      [] task[g].st = "saveRec" -> task[g].k - 1
      [] task[g].st = "failed" /\ task[g].cause = "saveRec" -> task[g].k - 1
      [] OTHER -> 0
SavedResult(g) ==
    \/ task[g].st \in {"ok", "saveRec"}
    \/ task[g].st = "failed" /\ task[g].cause = "saveRec"

\* C9: the rows persisted are a function of the per-group outcomes alone,
\* whatever the interleaving of the tasks: the tables hold exactly the rows
\* each task has saved so far; and every row is written by one task only.
C9_GroupTasksIndependent ==
    /\ analysisResults = SetToBag({ResultRow(g) : g \in {h \in Groups : SavedResult(h)}})
    /\ recommendations =
          SetToBag(UNION {{RecommendationRow(g, k) : k \in 1..SavedRecommendations(g)} :
                            g \in Groups})
    /\ \A r \in BagToSet(analysisResults) :
          Cardinality(r.writers) = 1 /\ CopiesIn(r, analysisResults) = 1
    /\ \A r \in BagToSet(recommendations) :
          Cardinality(r.writers) = 1 /\ CopiesIn(r, recommendations) = 1

\* C9 witness: two groups each saved a result and recommendations.
C9_Witness ==
    /\ AllSettled
    /\ \E g, h \in Groups :
          /\ g # h
          /\ task[g].st = "ok" /\ task[g].recs > 0
          /\ task[h].st = "ok" /\ task[h].recs > 0

Next ==
    \/ FindEvaluation
    \/ CreateAnalysis
    \/ PrepareRubricContext
    \/ StartGroupTasks
    \/ FinishAnalysis
    \/ \E g \in Groups : FetchSubmission(g)
    \/ \E g \in Groups : ModelResponds(g)
    \/ \E g \in Groups : SaveResult(g)
    \/ \E g \in Groups : SaveRecommendation(g)

Spec == Init /\ [][Next]_vars

\* ------------------------------------------------------------------------
\* Submissions uploaded while an analysis runs
\* ------------------------------------------------------------------------
\* A group starts with any number of submissions below MaxUploads, uploaded
\* at times 1, 2, ...; students may upload further ones at any moment of the
\* run, each stamped later than the ones before (uploadedAt defaults to now()).
InitLatest ==
    /\ evalExists = TRUE
    /\ uploadedAt \in [Groups -> {1..n : n \in 0..(MaxUploads - 1)}]
    /\ hasSubmission = [g \in Groups |-> uploadedAt[g] # {}]
    /\ rubricPdfUrl = [r \in Rubrics |-> FALSE]
    /\ AnalysisIdle
    /\ ChunksIdle
    /\ ServicesIdle

UploadSubmission(g) ==
    /\ Cardinality(uploadedAt[g]) < MaxUploads
    /\ uploadedAt' = [uploadedAt EXCEPT ![g] = @ \cup {Cardinality(@) + 1}]
    /\ hasSubmission' = [hasSubmission EXCEPT ![g] = TRUE]
    /\ UNCHANGED <<evalExists, rubricPdfUrl, tableVars, callVars, countVars,
                   chunkVars, serviceVars>>

\* The run is followed up to the model calls: the load, the fetch and the
\* model call are the steps that read a submission.
NextLatest ==
    \/ FindEvaluation
    \/ CreateAnalysis
    \/ PrepareRubricContext
    \/ StartGroupTasks
    \/ \E g \in Groups : FetchSubmission(g)
    \/ \E g \in Groups : UploadSubmission(g)

SpecLatest == InitLatest /\ [][NextLatest]_vars

\* C25: a group's task reads exactly one submission, the one with the greatest
\* upload time among those the group had when the evaluation was loaded; an
\* older one is never fetched, nor is one uploaded after the load.
C25_OnlyLatestAtLoadRead ==
    \A g \in Groups :
        /\ fetches[g] <= 1
        /\ task[g].st \notin {"idle", "skipped"} =>
              /\ fetches[g] = 1
              /\ task[g].fetched \in evaluation[1].present[g]
              /\ \A t \in evaluation[1].present[g] : t <= task[g].fetched

\* A group with an older submission at load and one uploaded after the load
\* has had its submission fetched and passed on to the model.
C25_Witness ==
    \E g \in Groups :
        /\ task[g].st = "modelCall"
        /\ modelCalls[g] = 1
        /\ Cardinality(evaluation[1].present[g]) >= 2
        /\ uploadedAt[g] \ evaluation[1].present[g] # {}

\* C23: in one run the rubric context is built once, before any group task
\* starts: every rubric's PDF is fetched at most once however many groups
\* there are, no group task exists before the context holds a section for
\* every rubric, and every model call of the run was given that same
\* context.
C23_ContextBuiltOnceAndShared ==
    /\ \A r \in Rubrics : rubricFetches[r] <= 1
    /\ (\E g \in Groups : task[g].st # "idle") => Len(rubricContext) = NumRubrics
    /\ \A g \in Groups : modelCalls[g] > 0 => task[g].context = rubricContext
    /\ \A g, h \in Groups :
          (modelCalls[g] > 0 /\ modelCalls[h] > 0) => task[g].context = task[h].context

\* C23 witness: the model was called for two groups, with a context that
\* holds the text of a rubric's PDF, fetched once.
C23_Witness ==
    /\ \E g, h \in Groups : g # h /\ modelCalls[g] = 1 /\ modelCalls[h] = 1
    /\ \E r \in Rubrics :
          /\ rubricFetches[r] = 1
          /\ Len(rubricContext) = NumRubrics
          /\ rubricContext[r].pdf

\* The extraction of rubric r's PDF was tried and failed: the PDF was
\* fetched, and the rubric's section holds no PDF text.
RubricPdfFailed(r) ==
    /\ rubricFetches[r] = 1
    /\ r <= Len(rubricContext) => ~rubricContext[r].pdf

\* C24: a rubric PDF that cannot be fetched or extracted does not fail the
\* run: the run never throws while the context is being built, and the
\* context holds, for every rubric visited, a section with the rubric's
\* title and items, the failed rubric included; a section lacks the PDF
\* text only if the rubric has no PDF or its extraction failed.
C24_RubricPdfFailureSwallowed ==
    /\ pc = "threw" =>
          \/ analysis = Null
          \/ evaluation = Null
          \/ Len(rubricContext) = NumRubrics
    /\ \A r \in 1..Len(rubricContext) :
          /\ rubricContext[r].rubric = r
          /\ rubricContext[r].title
          /\ rubricContext[r].items
          /\ rubricContext[r].pdf => evaluation[1].rubrics[r]
          /\ (evaluation[1].rubrics[r] /\ ~rubricContext[r].pdf) => RubricPdfFailed(r)
    /\ \A r \in Rubrics :
          (rubricFetches[r] = 1 /\ pc \in {"spawn", "awaiting", "returned"}) =>
              r <= Len(rubricContext)

\* C24 witness: the PDF of the first rubric failed, the PDF of the second
\* was extracted, and the group tasks run with a context of both sections.
C24_Witness ==
    /\ pc = "awaiting"
    /\ Len(rubricContext) = 2
    /\ RubricPdfFailed(1)
    /\ rubricContext[1].title /\ rubricContext[1].items
    /\ rubricContext[2].pdf

\* ------------------------------------------------------------------------
\* PdfController.analyzeInChunks
\* ------------------------------------------------------------------------
Providers == {"openai", "gemini"}

\* The chunk requests the loop issues once `done` responses were observed:
\* the loop awaits each generateText before its next iteration.
IssueAllAtOnce(total, done) ==
    IF done = 0 THEN [i \in 1..total |-> i] ELSE <<>>
IssueNext(total, done) ==
    IF done < total THEN <<done + 1>> ELSE <<>>

RetriedChunkRequests(provider, total, done) ==
    LET next == IssueNext(total, done) \o IssueNext(total, done)
    IN  [i \in 1..Len(next) |-> [provider |-> provider, chunkIndex |-> next[i]]]
ChunkRequests(provider, total, done) ==
    LET next == IssueNext(total, done)
    IN  [i \in 1..Len(next) |-> [provider |-> provider, chunkIndex |-> next[i]]]

\* catch (error) { await deleteFile(file.path); throw error; }: a failed
\* chunk call ends the loop, and the error replaces whatever was collected.
SkipFailedChunk(provider, total, i) ==
    [cpc |-> IF i = total THEN "delete" ELSE "awaitChunk",
     creply |-> Pending,
     next |-> ChunkRequests(provider, total, i)]
CatchChunkError(provider, total, i) ==
    [cpc |-> "deleteAfterError", creply |-> Failure("Provider"), next |-> <<>>]

\* responses.push({ chunkIndex: i + 1, totalChunks: chunks.length, response })
\* with the loop's 0-based i; here i counts from 1.
ChunkResponseZeroBased(i, total, response) ==
    [chunkIndex |-> i - 1, totalChunks |-> total, response |-> response]
ChunkResponse(i, total, response) ==
    [chunkIndex |-> i, totalChunks |-> total, response |-> response]

\* return { success: true, provider, totalChunks, responses, metadata }
ChunksReply(provider, total, responses) ==
    [success |-> TRUE, provider |-> provider, totalChunks |-> total,
     responses |-> responses]

\* A request arrives; the interceptor has stored the uploaded file, if any.
InitChunks ==
    /\ evalExists = FALSE
    /\ hasSubmission = [g \in Groups |-> FALSE]
    /\ uploadedAt = [g \in Groups |-> {}]
    /\ rubricPdfUrl = [r \in Rubrics |-> FALSE]
    /\ AnalysisIdle
    /\ ServicesIdle
    /\ request \in [file : BOOLEAN, prompt : {"", "p"},
                     provider : Providers \cup {"", "other"}]
    /\ cpc = "validate"
    /\ cleanedText = <<>>
    /\ chunks = <<>>
    /\ issued = <<>>
    /\ observed = 0
    /\ chunkResponses = <<>>
    /\ fileOnDisk = request.file
    /\ unlinkCalls = 0
    /\ creply = Pending

\* if (!file) throw ...; if (!prompt) throw ...; if (!provider || ...) throw ...
ValidateChunkRequest ==
    /\ cpc = "validate"
    /\ IF ~request.file \/ request.prompt = "" \/ request.provider \notin Providers
       THEN cpc' = "threw" /\ creply' = Failure("BadRequest")
       ELSE cpc' = "extract" /\ UNCHANGED creply
    /\ UNCHANGED <<analysisVars, serviceVars, request, cleanedText, chunks, issued, observed,
                   chunkResponses, fileOnDisk, unlinkCalls>>

\* extractText throws, or returns a text that is cleaned and split; the
\* loop then issues its first request, or ends at once without chunks.
ExtractAndSplit ==
    /\ cpc = "extract"
    /\ \/ /\ cpc' = "deleteAfterError"
          /\ creply' = Failure("Extraction")
          /\ UNCHANGED <<cleanedText, chunks, issued>>
       \/ \E text \in Texts :
            LET cleaned == cleanText(text)
                split == splitTextIntoChunks(cleaned, ChunkSize)
                first == ChunkRequests(request.provider, Len(split), 0)
            IN  /\ cleanedText' = cleaned
                /\ chunks' = split
                /\ issued' = issued \o first
                /\ cpc' = IF first = <<>> THEN "delete" ELSE "awaitChunk"
                /\ UNCHANGED creply
    /\ UNCHANGED <<analysisVars, serviceVars, request, observed, chunkResponses, fileOnDisk,
                   unlinkCalls>>

\* The awaited generateText of a chunk returns or throws.
ChunkResponds ==
    /\ cpc = "awaitChunk"
    /\ observed < Len(issued)
    /\ observed' = observed + 1
    /\ \/ LET caught == CatchChunkError(request.provider, Len(chunks), observed + 1)
          IN  /\ cpc' = caught.cpc
              /\ creply' = caught.creply
              /\ issued' = issued \o caught.next
              /\ UNCHANGED chunkResponses
       \/ LET i == observed + 1
              next == ChunkRequests(request.provider, Len(chunks), i)
          IN  /\ chunkResponses' = Append(chunkResponses,
                     ChunkResponse(i, Len(chunks), issued[i]))
              /\ issued' = issued \o next
              /\ cpc' = IF i = Len(chunks) THEN "delete" ELSE "awaitChunk"
              /\ UNCHANGED creply
    /\ UNCHANGED <<analysisVars, serviceVars, request, cleanedText, chunks, fileOnDisk,
                   unlinkCalls>>

\* PdfService.deleteFile: try { await fs.unlink(filePath) } catch { log }.
\* `unlinked` tells whether unlink succeeded; the error is never passed on.
deleteFileOrThrow(onDisk, unlinked) ==
    [onDisk |-> onDisk /\ ~unlinked, threw |-> ~unlinked]
deleteFile(onDisk, unlinked) ==
    [onDisk |-> onDisk /\ ~unlinked, threw |-> FALSE]

\* await pdfService.deleteFile(file.path), as the last statement of the try
\* block or the first of the catch block; then the handler returns its
\* result or rethrows. An error thrown inside the try block enters the catch.
DeleteUploadedFile ==
    /\ cpc \in {"delete", "deleteAfterError"}
    /\ unlinkCalls' = unlinkCalls + 1
    /\ \E unlinked \in BOOLEAN :
         LET deleted == deleteFile(fileOnDisk, unlinked)
         IN  /\ fileOnDisk' = deleted.onDisk
             /\ IF deleted.threw
                THEN /\ cpc' = IF cpc = "delete" THEN "deleteAfterError" ELSE "threw"
                     /\ creply' = Failure("Unlink")
                ELSE IF cpc = "delete"
                THEN /\ cpc' = "returned"
                     /\ creply' = ChunksReply(request.provider, Len(chunks), chunkResponses)
                ELSE cpc' = "threw" /\ UNCHANGED creply
    /\ UNCHANGED <<analysisVars, serviceVars, request, cleanedText, chunks, issued, observed,
                   chunkResponses>>

NextChunks ==
    \/ ValidateChunkRequest
    \/ ExtractAndSplit
    \/ ChunkResponds
    \/ DeleteUploadedFile

SpecChunks == InitChunks /\ [][NextChunks]_vars

\* ------------------------------------------------------------------------
\* Claims about analyzeInChunks
\* ------------------------------------------------------------------------
ChunksInFlight == Len(issued) - observed

\* C10: the chunk requests are issued in order, one at a time: the request
\* for chunk i+1 exists only once i responses were observed, so at most one
\* provider call is in flight in every state.
C10_ChunkRequestsSequential ==
    /\ ChunksInFlight \in {0, 1}
    /\ \A i \in 1..Len(issued) :
          /\ issued[i].chunkIndex = i
          /\ observed >= i - 1

\* C10 witness: the second chunk's request is in flight, the first chunk's
\* response having been collected.
C10_Witness ==
    /\ Len(chunks) >= 3
    /\ Len(issued) = 2
    /\ observed = 1
    /\ Len(chunkResponses) = 1

\* The provider call of some chunk threw: its outcome was observed, but no
\* response was collected for it.
ChunkFailed == observed > Len(chunkResponses)

\* C11: when the provider call for chunk i fails, the failed request stays
\* the last one issued (no request for any chunk j > i), the handler goes to
\* its catch block and rethrows the provider's error, and what the caller
\* receives is that error alone, without the responses of chunks 1..i-1.
C11_FailFastOnChunkError ==
    ChunkFailed =>
        /\ observed = Len(chunkResponses) + 1
        /\ Len(issued) = observed
        /\ cpc \in {"deleteAfterError", "threw"}
        /\ creply = Failure("Provider")

\* C11 witness: chunk 2 of 3 failed after the response of chunk 1 had been
\* collected, and the handler has thrown.
C11_Witness ==
    /\ Len(chunks) = 3
    /\ observed = 2
    /\ Len(chunkResponses) = 1
    /\ cpc = "threw"

\* The scenario's length range: more than two chunk sizes, at most three.
ThreeChunkLength(text) ==
    2 * ChunkSize < Len(text) /\ Len(text) <= 3 * ChunkSize

\* The text holds a character splitTextIntoChunks breaks at.
HasBreakPoint(text) ==
    \E i \in 1..Len(text) : text[i] \in {".", "\n"}

\* The reply carries n responses, tagged 1..n of n, in order.
TaggedInOrder(reply, n) ==
    /\ reply.totalChunks = n
    /\ Len(reply.responses) = n
    /\ \A i \in 1..n :
          /\ reply.responses[i].chunkIndex = i
          /\ reply.responses[i].totalChunks = n

InitCalls == Init \/ InitChunks

NextCalls == Next \/ NextChunks

SpecCalls == InitCalls /\ [][NextCalls]_vars

\* The group's latest submission was fetched and its text extracted.
Extracted(g) ==
    /\ task[g].st \notin {"idle", "skipped", "fetching"}
    /\ ~(task[g].st = "failed" /\ task[g].cause = "fetch")

\* C26: nothing is retried. A group gets one structured model call if its
\* latest submission was extracted and none otherwise, whatever the call's
\* outcome; analyzeInChunks issues at most one provider call per chunk, each
\* to the provider the request selected.
C26_NoRetries ==
    /\ \A g \in Groups : modelCalls[g] = IF Extracted(g) THEN 1 ELSE 0
    /\ \A i \in 1..Len(issued) :
          /\ issued[i].provider = request.provider
          /\ issued[i].chunkIndex \in 1..Len(chunks)
          /\ \A j \in 1..Len(issued) :
                issued[i].chunkIndex = issued[j].chunkIndex => i = j

\* A group whose model call failed has settled after that one call, next to
\* a group whose submission could not be fetched.
C26_Witness ==
    \E g, h \in Groups :
        /\ task[g].st = "failed"
        /\ task[g].cause \in {"provider", "schema"}
        /\ modelCalls[g] = 1
        /\ task[h].st = "failed"
        /\ task[h].cause = "fetch"
        /\ modelCalls[h] = 0

\* ------------------------------------------------------------------------
\* PdfController.extractText, analyzeWithOpenAI, analyzeWithGemini
\* ------------------------------------------------------------------------
UploadEndpoints == {"extract", "analyze-with-openai", "analyze-with-gemini"}

TakesPrompt(e) == e # "extract"

\* return { success: true, ... }
UploadReply(e) == [success |-> TRUE, error |-> "none", endpoint |-> e]

\* A request arrives; the interceptor has stored the uploaded file, if any.
InitUpload ==
    /\ evalExists = FALSE
    /\ hasSubmission = [g \in Groups |-> FALSE]
    /\ uploadedAt = [g \in Groups |-> {}]
    /\ rubricPdfUrl = [r \in Rubrics |-> FALSE]
    /\ AnalysisIdle
    /\ ChunksIdle
    /\ TextIdle
    /\ UrlIdle
    /\ DocsIdle
    /\ RubricIdle
    /\ ScoreIdle
    /\ LoopIdle
    /\ endpoint \in UploadEndpoints
    /\ upload \in [file : BOOLEAN, prompt : {"", "p"}]
    /\ upc = "validate"
    /\ stored = upload.file
    /\ unlinks = 0
    /\ ureply = Pending

\* if (!file) throw ...; if (!prompt) throw ...: both before the try block
ValidateUpload ==
    /\ upc = "validate"
    /\ IF ~upload.file \/ (TakesPrompt(endpoint) /\ upload.prompt = "")
       THEN upc' = "threw" /\ ureply' = Failure("BadRequest")
       ELSE upc' = "extract" /\ UNCHANGED ureply
    /\ UNCHANGED <<analysisVars, chunkVars, textVars, urlVars, docVars, rubricVars, scoreVars,
                   loopVars, endpoint, upload, stored, unlinks>>

\* extractText / extractTextWithMetadata throws or returns; extractText then
\* has its result, the analyzing endpoints call the provider.
ExtractUpload ==
    /\ upc = "extract"
    /\ \E threw \in BOOLEAN :
         IF threw
         THEN upc' = "deleteAfterError" /\ ureply' = Failure("Extraction")
         ELSE /\ upc' = IF TakesPrompt(endpoint) THEN "generate" ELSE "delete"
              /\ UNCHANGED ureply
    /\ UNCHANGED <<analysisVars, chunkVars, textVars, urlVars, docVars, rubricVars, scoreVars,
                   loopVars, endpoint, upload, stored, unlinks>>

\* The awaited generateText returns or throws.
GenerateUpload ==
    /\ upc = "generate"
    /\ \E threw \in BOOLEAN :
         IF threw
         THEN upc' = "deleteAfterError" /\ ureply' = Failure("Provider")
         ELSE upc' = "delete" /\ UNCHANGED ureply
    /\ UNCHANGED <<analysisVars, chunkVars, textVars, urlVars, docVars, rubricVars, scoreVars,
                   loopVars, endpoint, upload, stored, unlinks>>

\* await pdfService.deleteFile(file.path), as the last statement of the try
\* block or the first of the catch block; then return or rethrow.
DeleteUpload ==
    /\ upc \in {"delete", "deleteAfterError"}
    /\ unlinks' = unlinks + 1
    /\ \E unlinked \in BOOLEAN :
         LET deleted == deleteFile(stored, unlinked)
         IN  /\ stored' = deleted.onDisk
             /\ IF deleted.threw
                THEN /\ upc' = IF upc = "delete" THEN "deleteAfterError" ELSE "threw"
                     /\ ureply' = Failure("Unlink")
                ELSE IF upc = "delete"
                THEN upc' = "returned" /\ ureply' = UploadReply(endpoint)
                ELSE upc' = "threw" /\ UNCHANGED ureply
    /\ UNCHANGED <<analysisVars, chunkVars, textVars, urlVars, docVars, rubricVars, scoreVars,
                   loopVars, endpoint, upload>>

NextUpload ==
    \/ ValidateUpload
    \/ ExtractUpload
    \/ GenerateUpload
    \/ DeleteUpload

\* One request to any of the four upload endpoints.
InitUploads == InitUpload \/ InitChunks

NextUploads == NextUpload \/ NextChunks

SpecUploads == InitUploads /\ [][NextUploads]_vars

\* The request passed the checks made before the try block.
UploadStarted == upc \notin {"off", "validate"} /\ ureply # Failure("BadRequest")

ChunksStarted == cpc \notin {"off", "validate"} /\ creply # Failure("BadRequest")

ProcessingErrors == {"Extraction", "Provider"}

\* C27: once an upload endpoint has started processing, it calls unlink on
\* the stored file exactly once by the time it finishes, whether processing
\* succeeded or failed; whether unlink succeeded has no part in the outcome:
\* the handler returns its result if processing succeeded and throws the
\* processing error otherwise.
C27_DeletionAttemptedOnce ==
    /\ unlinks <= 1
    /\ unlinkCalls <= 1
    /\ (UploadStarted /\ upc \in {"returned", "threw"}) =>
          /\ unlinks = 1
          /\ IF upc = "returned"
             THEN ureply = UploadReply(endpoint)
             ELSE ~ureply.success /\ ureply.error \in ProcessingErrors
    /\ (ChunksStarted /\ cpc \in {"returned", "threw"}) =>
          /\ unlinkCalls = 1
          /\ IF cpc = "returned"
             THEN creply.success
             ELSE ~creply.success /\ creply.error \in ProcessingErrors

\* A request whose processing succeeded has returned although unlink failed
\* and the file is still on disk.
C27_Witness ==
    /\ upc = "returned"
    /\ unlinks = 1
    /\ stored
    /\ ureply.success

\* C28: when a request to an upload endpoint has finished, by returning or by
\* throwing on any path, rejections of the request's fields included, the
\* file stored for it is no longer on disk, unless the one unlink the
\* handler attempted failed.
C28_StoredFileDeletedAtFinish ==
    /\ (upc \in {"returned", "threw"} /\ stored) => unlinks >= 1
    /\ (cpc \in {"returned", "threw"} /\ fileOnDisk) => unlinkCalls >= 1

\* ------------------------------------------------------------------------
\* PdfService's text functions, called on their own
\* ------------------------------------------------------------------------
\* largest chunkSize a call passes
MaxChunkSize == 3
\* largest maxTokens a call passes
MaxTokens == 1
\* maxChars = maxTokens * 4
CharsPerToken == 4

\* '\n\n[... texto truncado ...]'
TruncationMarker ==
    <<"\n", "\n", "[", ".", ".", ".", " ", "t", "e", "x", "t", "o", " ",
      "t", "r", "u", "n", "c", "a", "d", "o", " ", ".", ".", ".", "]">>

\* PdfService.truncateText; the variant compares with < instead of <=
truncateBelowLimit(text, maxTokens) ==
    LET maxChars == maxTokens * CharsPerToken
    IN  IF Len(text) < maxChars
        THEN text
        ELSE Substring(text, 0, maxChars) \o TruncationMarker
truncateText(text, maxTokens) ==
    LET maxChars == maxTokens * CharsPerToken
    IN  IF Len(text) <= maxChars
        THEN text
        ELSE Substring(text, 0, maxChars) \o TruncationMarker

\* The texts the functions are called with: every text over the characters
\* the split looks at, every text over the three kinds of whitespace, and
\* texts that end in the truncation marker, as the output of an earlier
\* truncateText does.
TabAlphabet == {"a", " ", "\n", "\t"}
TabTexts == UNION {[1..n -> TabAlphabet] : n \in 0..MaxTextLen}
MarkedTexts == {[i \in 1..n |-> "a"] \o TruncationMarker : n \in 0..MaxTextLen}
TextInputs == Texts \cup TabTexts \cup MarkedTexts

InitText ==
    /\ evalExists = FALSE
    /\ hasSubmission = [g \in Groups |-> FALSE]
    /\ uploadedAt = [g \in Groups |-> {}]
    /\ rubricPdfUrl = [r \in Rubrics |-> FALSE]
    /\ AnalysisIdle
    /\ ChunksIdle
    /\ UrlIdle
    /\ DocsIdle
    /\ OthersIdle
    /\ input \in TextInputs
    /\ param = 0
    /\ applied = "none"
    /\ ranges = <<>>
    /\ result = <<>>

\* splitTextIntoChunks(text, chunkSize)
SplitText ==
    /\ applied = "none"
    /\ \E chunkSize \in 1..MaxChunkSize :
          /\ param' = chunkSize
          /\ ranges' = SplitCuts(input, chunkSize, 0)
          /\ result' = splitTextIntoChunks(input, chunkSize)
    /\ applied' = "splitTextIntoChunks"
    /\ UNCHANGED <<analysisVars, chunkVars, otherVars, urlVars, docVars, input>>

\* cleanText(text)
CleanText ==
    /\ applied = "none"
    /\ result' = cleanText(input)
    /\ applied' = "cleanText"
    /\ UNCHANGED <<analysisVars, chunkVars, otherVars, urlVars, docVars, input, param, ranges>>

\* truncateText(text, maxTokens)
TruncateText ==
    /\ applied = "none"
    /\ \E maxTokens \in 0..MaxTokens :
          /\ param' = maxTokens
          /\ result' = truncateText(input, maxTokens)
    /\ applied' = "truncateText"
    /\ UNCHANGED <<analysisVars, chunkVars, otherVars, urlVars, docVars, input, ranges>>

NextText ==
    \/ SplitText
    \/ CleanText
    \/ TruncateText

SpecText == InitText /\ [][NextText]_vars

\* ------------------------------------------------------------------------
\* Claims about the text functions
\* ------------------------------------------------------------------------
\* The pieces text.substring(from, to) takes for the ranges, and their
\* concatenation.
Pieces(text, cuts) ==
    [i \in 1..Len(cuts) |-> Substring(text, cuts[i].from, cuts[i].to)]
RECURSIVE Concat(_)
Concat(pieces) ==
    IF pieces = <<>> THEN <<>> ELSE Head(pieces) \o Concat(Tail(pieces))

\* The end of a range as substring takes it: clamped to the text's length.
ClampedEnd(text, cut) == IF cut.to > Len(text) THEN Len(text) ELSE cut.to

\* C13: the ranges splitTextIntoChunks cuts start at 0, are non-empty, each
\* starts where the one before it ends, and the last one ends at the end of
\* the text, so that the pieces cut put together are the text again; each
\* chunk returned is its piece with the whitespace at its two ends trimmed.
C13_SplitPartitionsText ==
    applied = "splitTextIntoChunks" =>
        LET n == Len(ranges)
        IN  /\ (n = 0) <=> (input = <<>>)
            /\ n > 0 => ranges[1].from = 0 /\ ClampedEnd(input, ranges[n]) = Len(input)
            /\ \A i \in 1..n : ranges[i].from < ClampedEnd(input, ranges[i])
            /\ \A i \in 1..(n - 1) :
                  /\ ranges[i].to <= Len(input)
                  /\ ranges[i + 1].from = ranges[i].to
            /\ Concat(Pieces(input, ranges)) = input
            /\ Len(result) = n
            /\ \A i \in 1..n : result[i] = Trim(Pieces(input, ranges)[i])

\* C13 witness: a text was cut into three ranges, one of them moved to a
\* period, and trimming removed whitespace from a chunk.
C13_Witness ==
    /\ applied = "splitTextIntoChunks"
    /\ Len(ranges) = 3
    /\ \E i \in 1..3 : ranges[i].to - ranges[i].from # param
    /\ \E i \in 1..3 : result[i] # Pieces(input, ranges)[i]

\* C14: no chunk splitTextIntoChunks returns for a non-empty text is the
\* empty string, and the empty text yields no chunk at all.
C14_NoEmptyChunk ==
    applied = "splitTextIntoChunks" =>
        /\ input = <<>> => result = <<>>
        /\ input # <<>> => \A i \in 1..Len(result) : result[i] # <<>>

\* C15: cleanText is idempotent: cleaning its own output changes nothing.
C15_CleanIdempotent ==
    applied = "cleanText" => cleanText(result) = result

\* C15 witness: cleanText changed a text that holds a tab, a line break and
\* a run of whitespace, and kept some of it.
C15_Witness ==
    /\ applied = "cleanText"
    /\ \E i \in 1..Len(input) : input[i] = "\t"
    /\ \E i \in 1..Len(input) : input[i] = "\n"
    /\ Len(result) >= 3
    /\ result # input

\* The text holds two non-whitespace characters with nothing but whitespace
\* between them, at least two line breaks of it: a paragraph break.
HasParagraphBreak(text) ==
    \E i, j \in 1..Len(text) :
        /\ i + 2 < j
        /\ text[i] \notin Whitespace
        /\ text[j] \notin Whitespace
        /\ \A k \in (i + 1)..(j - 1) : text[k] \in Whitespace
        /\ Cardinality({k \in (i + 1)..(j - 1) : text[k] = "\n"}) >= 2

\* Every whitespace run of the text is one space or one blank line.
RunsCollapsed(text) ==
    \A i \in 1..Len(text) :
        text[i] \in Whitespace =>
            \/ /\ text[i] = " "
               /\ i > 1 => text[i - 1] \notin Whitespace
               /\ i < Len(text) => text[i + 1] \notin Whitespace
            \/ /\ text[i] = "\n"
               /\ \E k \in {i - 1, i} :
                     /\ k >= 1 /\ k + 1 <= Len(text)
                     /\ text[k] = "\n" /\ text[k + 1] = "\n"
                     /\ k > 1 => text[k - 1] \notin Whitespace
                     /\ k + 1 < Len(text) => text[k + 2] \notin Whitespace

\* Exactly one blank line stands somewhere in the text.
HasBlankLine(text) ==
    \E k \in 1..(Len(text) - 1) : text[k] = "\n" /\ text[k + 1] = "\n"

\* C16: cleanText keeps exactly one blank line where the input has a
\* paragraph break, turns every other whitespace run into one space, and
\* removes leading and trailing whitespace.
C16_BlankLineKept ==
    applied = "cleanText" =>
        /\ Trim(result) = result
        /\ RunsCollapsed(result)
        /\ HasParagraphBreak(input) => HasBlankLine(result)

\* What truncateText compares the length with, and the prefix it keeps.
MaxChars(maxTokens) == maxTokens * CharsPerToken
KeptPrefix(text, maxTokens) == Substring(text, 0, MaxChars(maxTokens))

\* Beyond the limit the result is the prefix followed by the marker.
TruncatedBeyondLimit ==
    Len(input) > MaxChars(param) =>
        /\ result = KeptPrefix(input, param) \o TruncationMarker
        /\ Len(result) = MaxChars(param) + Len(TruncationMarker)

\* C17 as stated: truncateText returns its text unchanged exactly when
\* text.length <= maxTokens*4, and otherwise the first maxTokens*4
\* characters followed by the marker, of length maxTokens*4 + len(marker).
C17_UnchangedExactlyWithinLimit ==
    applied = "truncateText" =>
        /\ (result = input) <=> (Len(input) <= MaxChars(param))
        /\ TruncatedBeyondLimit

\* C17 amended: truncateText returns its text unchanged whenever
\* text.length <= maxTokens*4, and otherwise the first maxTokens*4
\* characters followed by the marker, of length maxTokens*4 + len(marker);
\* beyond the limit the result equals the input only for an input that
\* already is its first maxTokens*4 characters followed by the marker.
C17_TruncateByLength ==
    applied = "truncateText" =>
        /\ Len(input) <= MaxChars(param) => result = input
        /\ TruncatedBeyondLimit
        /\ (Len(input) > MaxChars(param) /\ result = input) =>
               Substring(input, MaxChars(param), Len(input)) = TruncationMarker

\* C17 witness: a text longer than the limit that already ends in the
\* marker right after its first maxTokens*4 characters was truncated, and
\* the result is the text itself.
C17_Witness ==
    /\ applied = "truncateText"
    /\ param = 1
    /\ Len(input) > MaxChars(param)
    /\ result = KeptPrefix(input, param) \o TruncationMarker
    /\ result = input

\* C29: no range splitTextIntoChunks cuts is longer than chunkSize characters,
\* whatever the text and for every chunkSize of at least 1, also when a
\* period or a line break stands exactly at the tentative end index.
C29_CutsWithinChunkSize ==
    applied = "splitTextIntoChunks" =>
        \A i \in 1..Len(ranges) :
            ClampedEnd(input, ranges[i]) - ranges[i].from <= param

\* ------------------------------------------------------------------------
\* PdfService.splitTextIntoChunks, its loop step by step
\* ------------------------------------------------------------------------
\* iterations of the loop followed at most
MaxIterations == 6

\* const chunks = []; let currentIndex = 0; any chunkSize from 0 on
InitLoop ==
    /\ evalExists = FALSE
    /\ hasSubmission = [g \in Groups |-> FALSE]
    /\ uploadedAt = [g \in Groups |-> {}]
    /\ rubricPdfUrl = [r \in Rubrics |-> FALSE]
    /\ AnalysisIdle
    /\ ChunksIdle
    /\ TextIdle
    /\ UrlIdle
    /\ DocsIdle
    /\ RubricIdle
    /\ ScoreIdle
    /\ UploadIdle
    /\ splitInput \in Texts
    /\ splitSize \in 0..MaxChunkSize
    /\ lpc = "loop"
    /\ cursor = 0
    /\ pushed = 0

\* while (currentIndex < text.length) { ...; chunks.push(...);
\* currentIndex = endIndex; }
SplitIteration ==
    /\ lpc = "loop"
    /\ cursor < Len(splitInput)
    /\ pushed < MaxIterations
    /\ cursor' = ChunkEnd(splitInput, splitSize, cursor)
    /\ pushed' = pushed + 1
    /\ UNCHANGED <<analysisVars, chunkVars, textVars, urlVars, docVars, rubricVars, scoreVars,
                   uploadVars, splitInput, splitSize, lpc>>

\* the loop condition fails: return chunks
SplitReturn ==
    /\ lpc = "loop"
    /\ cursor >= Len(splitInput)
    /\ lpc' = "returned"
    /\ UNCHANGED <<analysisVars, chunkVars, textVars, urlVars, docVars, rubricVars, scoreVars,
                   uploadVars, splitInput, splitSize, cursor, pushed>>

NextLoop ==
    \/ SplitIteration
    \/ SplitReturn

\* The loop is synchronous code: it runs on while it can.
SpecLoop == InitLoop /\ [][NextLoop]_vars /\ WF_vars(NextLoop)

\* C30: splitTextIntoChunks returns for every text when chunkSize is at least
\* 1: every iteration moves the cursor forward, so no more chunks are pushed
\* than the text has characters; with chunkSize 0 and a non-empty text the
\* cursor stays where it is and the call never returns.
C30_SplitTerminates ==
    /\ [][SplitIteration =>
            IF splitSize >= 1 THEN cursor' > cursor ELSE cursor' = cursor]_vars
    /\ [](splitSize >= 1 => pushed <= Len(splitInput))
    /\ (splitSize >= 1) => <>(lpc = "returned")
    /\ (splitSize = 0 /\ splitInput # <<>>) => [](lpc # "returned" /\ cursor = 0)

\* A call with chunkSize 1 has returned after pushing as many chunks as the
\* text has characters, three or more.
C30_Witness ==
    /\ lpc = "returned"
    /\ splitSize = 1
    /\ Len(splitInput) >= 3
    /\ pushed = Len(splitInput)

\* ------------------------------------------------------------------------
\* S3PdfService.parseS3Url
\* ------------------------------------------------------------------------
\* parts a key is put together from, at most
MaxKeyParts == 3

S3Scheme == <<"s", "3", ":", "/", "/">>
HttpsScheme == <<"h", "t", "t", "p", "s", ":", "/", "/">>
DotS3Dot == <<".", "s", "3", ".">>
S3Dot == <<"s", "3", ".">>
DotAmazonaws == <<".", "a", "m", "a", "z", "o", "n", "a", "w", "s", ".", "c", "o", "m">>
Slash == <<"/">>
\* the <region> of the two HTTPS forms
Region == <<"r", "1">>

\* s.indexOf(p): the least 0-based index where p occurs in s, or -1
IndexOf(s, p) ==
    LET hits == {i \in 0..(Len(s) - Len(p)) : SubSeq(s, i + 1, i + Len(p)) = p}
    IN  IF hits = {} THEN -1 ELSE CHOOSE i \in hits : \A j \in hits : i <= j
\* s.includes(p), s.startsWith(p), s.substring(i)
Includes(s, p) == IndexOf(s, p) # -1
StartsWith(s, p) == Len(s) >= Len(p) /\ SubSeq(s, 1, Len(p)) = p
From(s, i) == SubSeq(s, i + 1, Len(s))
\* s.replace(p, ''): the first occurrence of p is removed
RemoveFirst(s, p) ==
    LET at == IndexOf(s, p)
    IN  IF at = -1 THEN s ELSE SubSeq(s, 1, at) \o From(s, at + Len(p))
\* s.split(p)[0] and s.split(p).slice(1).join(p)
BeforeFirst(s, p) ==
    LET at == IndexOf(s, p)
    IN  IF at = -1 THEN s ELSE SubSeq(s, 1, at)
AfterFirst(s, p) ==
    LET at == IndexOf(s, p)
    IN  IF at = -1 THEN <<>> ELSE From(s, at + Len(p))

\* new URL(s) for an https URL without port, user or fragment: the host
\* ends at the first "/" or "?", the path at the first "?"; an empty path
\* is "/", and a space of the path is percent-encoded.
EndOf(s, stops) ==
    LET hits == {i \in 1..Len(s) : s[i] \in stops}
    IN  IF hits = {} THEN Len(s) + 1 ELSE CHOOSE i \in hits : \A j \in hits : i <= j
RECURSIVE PercentEncode(_)
PercentEncode(s) ==
    IF s = <<>> THEN <<>>
    ELSE (IF Head(s) = " " THEN <<"%", "2", "0">> ELSE <<Head(s)>>)
             \o PercentEncode(Tail(s))
UrlParses(s) ==
    /\ StartsWith(s, HttpsScheme)
    /\ EndOf(From(s, Len(HttpsScheme)), {"/", "?"}) > 1
    /\ " " \notin {s[i] : i \in 1..(Len(HttpsScheme) + EndOf(From(s, Len(HttpsScheme)), {"/", "?"}) - 1)}
UrlHostname(s) ==
    LET rest == From(s, Len(HttpsScheme))
    IN  SubSeq(rest, 1, EndOf(rest, {"/", "?"}) - 1)
UrlPathname(s) ==
    LET rest == From(s, Len(HttpsScheme))
        afterHost == From(rest, EndOf(rest, {"/", "?"}) - 1)
        path == SubSeq(afterHost, 1, EndOf(afterHost, {"?"}) - 1)
    IN  IF path = <<>> THEN Slash ELSE PercentEncode(path)

Located(bucket, key) == [ok |-> TRUE, bucket |-> bucket, key |-> key]
InvalidUrl == [ok |-> FALSE, error |-> "URL de S3 invalida"]

\* parseS3Url: the three branches in the order of the code; an exception
\* of new URL and the final throw both end in the catch block.
parseS3Url(s3Url) ==
    IF StartsWith(s3Url, S3Scheme)
    THEN LET urlWithoutProtocol == RemoveFirst(s3Url, S3Scheme)
         IN  Located(BeforeFirst(urlWithoutProtocol, Slash),
                     AfterFirst(urlWithoutProtocol, Slash))
    ELSE IF Includes(s3Url, DotS3Dot) /\ Includes(s3Url, DotAmazonaws)
    THEN IF UrlParses(s3Url)
         THEN Located(BeforeFirst(UrlHostname(s3Url), DotS3Dot),
                      From(UrlPathname(s3Url), 1))
         ELSE InvalidUrl
    ELSE IF Includes(s3Url, S3Dot) /\ Includes(s3Url, DotAmazonaws)
    THEN IF UrlParses(s3Url)
         THEN LET path == From(UrlPathname(s3Url), 1)
              IN  Located(BeforeFirst(path, Slash), AfterFirst(path, Slash))
         ELSE InvalidUrl
    ELSE InvalidUrl

\* The three forms of the URL of bucket b and key k, and a URL of another
\* host.
S3Forms == {"s3", "virtualHosted", "pathStyle"}
UrlForms == S3Forms \cup {"other"}
UrlOf(form, b, k) ==
    CASE form = "s3" -> S3Scheme \o b \o Slash \o k
      [] form = "virtualHosted" ->
            HttpsScheme \o b \o DotS3Dot \o Region \o DotAmazonaws \o Slash \o k
      [] form = "pathStyle" ->
            HttpsScheme \o S3Dot \o Region \o DotAmazonaws \o Slash \o b \o Slash \o k
      [] OTHER -> HttpsScheme \o b \o Slash \o k

\* Bucket names, with and without dots; keys put together from a letter, a
\* slash, a space, a question mark and the infix ".s3.".
Buckets == {<<"b">>, <<"b", ".", "c">>}
KeyParts == {<<"k">>, Slash, <<" ">>, <<"?">>, DotS3Dot}
RECURSIVE KeysOf(_)
KeysOf(n) ==
    IF n = 0 THEN {<<>>}
    ELSE LET shorter == KeysOf(n - 1)
         IN  shorter \cup {k \o part : k \in shorter, part \in KeyParts}
Keys == KeysOf(MaxKeyParts) \ {<<>>}

InitUrl ==
    /\ evalExists = FALSE
    /\ hasSubmission = [g \in Groups |-> FALSE]
    /\ uploadedAt = [g \in Groups |-> {}]
    /\ rubricPdfUrl = [r \in Rubrics |-> FALSE]
    /\ AnalysisIdle
    /\ ChunksIdle
    /\ TextIdle
    /\ DocsIdle
    /\ OthersIdle
    /\ target \in [bucket : Buckets, key : Keys]
    /\ urlForm \in UrlForms
    /\ url = UrlOf(urlForm, target.bucket, target.key)
    /\ location = Null

ParseS3Url ==
    /\ location = Null
    /\ location' = Some(parseS3Url(url))
    /\ UNCHANGED <<analysisVars, chunkVars, otherVars, textVars, docVars, target, urlForm, url>>

NextUrl == ParseS3Url

SpecUrl == InitUrl /\ [][NextUrl]_vars

\* C18: for every bucket b and key k, each of the three URL forms of (b, k)
\* is resolved to {bucket: b, key: k}, so the three forms resolve to the
\* same location.
C18_FormsResolveAlike ==
    (location # Null /\ urlForm \in S3Forms) =>
        location[1] = Located(target.bucket, target.key)

\* ------------------------------------------------------------------------
\* The entry points that take a document to the PDF parser
\* ------------------------------------------------------------------------
MAX_FILE_SIZE == 10 * 1024 * 1024

\* Buffer.from('%PDF-')
PdfSignature == <<"%", "P", "D", "F", "-">>

\* buffer.slice(0, 5).equals(Buffer.from('%PDF-'))
isPDF(head) == SubSeq(head, 1, IF Len(head) < 5 THEN Len(head) ELSE 5) = PdfSignature

EntryPoints ==
    {"extractTextFromS3Url", "extractText", "extractTextWithMetadata",
     "extractTextFromBuffer"}

\* Which entry points compare the size with MAX_FILE_SIZE, and which look
\* at the magic bytes, before they construct the parser.
ChecksSize(e) == e \in {"extractTextFromS3Url", "extractText", "extractTextFromBuffer"}
ChecksFormat(e) == e = "extractTextFromS3Url"

\* The documents: the first bytes are the signature, a proper prefix of it
\* (a document shorter than 5 bytes), or the signature with one byte
\* changed; the size is that of the first bytes or lies around the limit.
Heads ==
    {SubSeq(PdfSignature, 1, n) : n \in 0..5}
        \cup {[PdfSignature EXCEPT ![i] = "x"] : i \in 1..5}
SizesOf(head) ==
    IF Len(head) < 5 THEN {Len(head)}
    ELSE {5, MAX_FILE_SIZE - 1, MAX_FILE_SIZE, MAX_FILE_SIZE + 1}
Documents == UNION {{[size |-> n, head |-> h] : n \in SizesOf(h)} : h \in Heads}

InitDocs ==
    /\ evalExists = FALSE
    /\ hasSubmission = [g \in Groups |-> FALSE]
    /\ uploadedAt = [g \in Groups |-> {}]
    /\ rubricPdfUrl = [r \in Rubrics |-> FALSE]
    /\ AnalysisIdle
    /\ ChunksIdle
    /\ TextIdle
    /\ UrlIdle
    /\ OthersIdle
    /\ doc \in Documents
    /\ entry \in EntryPoints
    /\ dpc = "called"
    /\ parserSaw = FALSE
    /\ dreply = "pending"

\* if (size > this.MAX_FILE_SIZE) throw new BadRequestException(...)
CheckSize ==
    /\ dpc = "called"
    /\ ChecksSize(entry)
    /\ IF doc.size > MAX_FILE_SIZE
       THEN dpc' = "threw" /\ dreply' = "TooLarge"
       ELSE /\ dpc' = IF ChecksFormat(entry) THEN "format" ELSE "parse"
            /\ UNCHANGED dreply
    /\ UNCHANGED <<analysisVars, chunkVars, otherVars, textVars, urlVars, doc, entry, parserSaw>>

\* if (!this.isPDF(buffer)) throw new BadRequestException(...)
CheckFormat ==
    /\ dpc = "format"
    /\ IF ~isPDF(doc.head)
       THEN dpc' = "threw" /\ dreply' = "InvalidFormat"
       ELSE dpc' = "parse" /\ UNCHANGED dreply
    /\ UNCHANGED <<analysisVars, chunkVars, otherVars, textVars, urlVars, doc, entry, parserSaw>>

\* new PDFParse({ data }) and await parser.getText(): the parser returns
\* the text or throws.
ParseDocument ==
    /\ \/ dpc = "parse"
       \/ dpc = "called" /\ ~ChecksSize(entry)
    /\ parserSaw' = TRUE
    /\ \E parsed \in BOOLEAN :
          IF parsed
          THEN dpc' = "returned" /\ dreply' = "Text"
          ELSE dpc' = "threw" /\ dreply' = "ParseError"
    /\ UNCHANGED <<analysisVars, chunkVars, otherVars, textVars, urlVars, doc, entry>>

NextDocs ==
    \/ CheckSize
    \/ CheckFormat
    \/ ParseDocument

SpecDocs == InitDocs /\ [][NextDocs]_vars

\* C19: at every entry point, a document larger than 10 MiB is never handed
\* to the parser and is rejected as too large, and a document of exactly
\* 10 MiB is not rejected as too large.
C19_SizeCeilingAtEveryEntry ==
    /\ doc.size > MAX_FILE_SIZE =>
          /\ ~parserSaw
          /\ dpc # "called" => (dpc = "threw" /\ dreply = "TooLarge")
    /\ doc.size = MAX_FILE_SIZE => dreply # "TooLarge"

\* C20: at every entry point, a document within the size limit whose first
\* 5 bytes are not %PDF- is never handed to the parser and is rejected as
\* not being a PDF.
C20_SignatureCheckedAtEveryEntry ==
    (doc.size <= MAX_FILE_SIZE /\ doc.head # PdfSignature) =>
        /\ ~parserSaw
        /\ dpc \in {"threw", "returned"} => (dpc = "threw" /\ dreply = "InvalidFormat")

\* ------------------------------------------------------------------------
\* EvaluationsService.createEvaluation / updateEvaluation: the RubricItem rows
\* ------------------------------------------------------------------------
\* items one call carries at most
MaxItemsPerCall == 2
\* greatest itemOrder a caller writes
MaxOrder == 3
\* rows the rubric holds at most
MaxRubricItems == 4

\* An item of a call is its itemOrder; in updateEvaluation 0 stands for an
\* item without one (`item.itemOrder || nextOrder++` treats 0 and undefined
\* alike).
ItemOrders == 0..MaxOrder
ItemLists == UNION {[1..n -> ItemOrders] : n \in 0..MaxItemsPerCall}

\* A row keeps its itemOrder; `explicit` and `maxBefore` are not columns:
\* they record whether the caller supplied the order, and the greatest
\* itemOrder of the rubric when the row was created (0 for an empty rubric).
MaxOrderOf(rows) ==
    IF rows = <<>> THEN 0
    ELSE CHOOSE m \in {rows[i].itemOrder : i \in 1..Len(rows)} :
             \A i \in 1..Len(rows) : rows[i].itemOrder <= m
ItemRow(rows, itemOrder, explicit) ==
    [itemOrder |-> itemOrder, explicit |-> explicit, maxBefore |-> MaxOrderOf(rows)]

\* createEvaluation: for (const item of dto.rubricItems)
\*   tx.rubricItem.create({ itemOrder: item.itemOrder, ... })
\* The number the caller wrote is stored as it is, 0 included (the DTO
\* requires itemOrder to be a number).
RECURSIVE CreateItems(_, _)
CreateItems(rows, items) ==
    IF items = <<>> THEN rows
    ELSE CreateItems(Append(rows, ItemRow(rows, Head(items), TRUE)), Tail(items))

\* updateEvaluation: let nextOrder = lastItem ? lastItem.itemOrder + 1 : 1;
\* for (const item of dto.additionalRubricItems)
\*   tx.rubricItem.create({ itemOrder: item.itemOrder || nextOrder++, ... })
RECURSIVE AppendItems(_, _, _)
AppendItems(rows, items, nextOrder) ==
    IF items = <<>> THEN rows
    ELSE IF Head(items) # 0
         THEN AppendItems(Append(rows, ItemRow(rows, Head(items), TRUE)),
                          Tail(items), nextOrder)
         ELSE AppendItems(Append(rows, ItemRow(rows, nextOrder, FALSE)),
                          Tail(items), nextOrder + 1)

\* Two rows of the rubric carry the same itemOrder.
HasDuplicateOrder(rows) ==
    \E i, j \in 1..Len(rows) : i < j /\ rows[i].itemOrder = rows[j].itemOrder

\* The rows a transaction leaves: those it wrote, or the old ones when a
\* create was rejected by the database and the transaction rolled back.
Committed(old, new) ==
    IF uniqueItemOrder /\ HasDuplicateOrder(new) THEN old ELSE new
TransactionReply(old, new) ==
    IF uniqueItemOrder /\ HasDuplicateOrder(new) THEN "failed" ELSE "ok"

InitRubric ==
    /\ evalExists = FALSE
    /\ hasSubmission = [g \in Groups |-> FALSE]
    /\ uploadedAt = [g \in Groups |-> {}]
    /\ rubricPdfUrl = [r \in Rubrics |-> FALSE]
    /\ AnalysisIdle
    /\ ChunksIdle
    /\ TextIdle
    /\ UrlIdle
    /\ DocsIdle
    /\ ScoreIdle
    /\ ExtrasIdle
    /\ uniqueItemOrder \in BOOLEAN
    /\ rubricExists = FALSE
    /\ rubricItems = <<>>
    /\ evalReply = "none"

\* createEvaluation(dto): the transaction creates the evaluation, its
\* primary rubric and the items, or throws and leaves nothing.
CreateEvaluation ==
    /\ ~rubricExists
    /\ \E items \in ItemLists, threw \in BOOLEAN :
          LET new == CreateItems(<<>>, items)
          IN  IF threw \/ TransactionReply(<<>>, new) = "failed"
              THEN evalReply' = "failed" /\ UNCHANGED <<rubricExists, rubricItems>>
              ELSE /\ rubricExists' = TRUE
                   /\ rubricItems' = new
                   /\ evalReply' = "ok"
    /\ UNCHANGED <<analysisVars, chunkVars, textVars, urlVars, docVars, scoreVars, extraVars,
                   uniqueItemOrder>>

\* updateEvaluation(id, dto): the transaction appends the additional items
\* to the rubric, or throws and leaves the rows as they were.
UpdateEvaluation ==
    /\ rubricExists
    /\ \E items \in ItemLists, threw \in BOOLEAN :
          /\ Len(rubricItems) + Len(items) <= MaxRubricItems
          /\ LET new == AppendItems(rubricItems, items, MaxOrderOf(rubricItems) + 1)
             IN  IF threw
                 THEN evalReply' = "failed" /\ UNCHANGED rubricItems
                 ELSE /\ rubricItems' = Committed(rubricItems, new)
                      /\ evalReply' = TransactionReply(rubricItems, new)
    /\ UNCHANGED <<analysisVars, chunkVars, textVars, urlVars, docVars, scoreVars, extraVars,
                   uniqueItemOrder, rubricExists>>

NextRubric ==
    \/ CreateEvaluation
    \/ UpdateEvaluation

SpecRubric == InitRubric /\ [][NextRubric]_vars

\* C21: after any sequence of createEvaluation and updateEvaluation calls the
\* order indices of the rubric's items are pairwise distinct, and every item
\* stored without an explicit order carries the greatest order index the
\* rubric had when the item was added, plus 1.
C21_OrdersDistinctAndSequential ==
    /\ ~HasDuplicateOrder(rubricItems)
    /\ \A i \in 1..Len(rubricItems) :
          ~rubricItems[i].explicit =>
              rubricItems[i].itemOrder = rubricItems[i].maxBefore + 1

\* ------------------------------------------------------------------------
\* AnalysisService.calculateMaxScoreFromContext
\* ------------------------------------------------------------------------
\* longest context passed in
MaxContextLen == 5
\* what the function returns when the context names no maximum score
DefaultMaxScore == 20

\* A context is a sequence of characters; "L" stands for the label
\* 'Puntaje máximo:' (in any letter case), "x" for any other character.
\* Numbers are counted in units of 10^-MaxContextLen, so that every decimal
\* a context can hold is an integer.
Label == "L"
Digits == {"0", "5"}
NumeralChars == Digits \cup {"."}
ContextAlphabet == {Label, " ", "x"} \cup NumeralChars
Contexts == UNION {[1..n -> ContextAlphabet] : n \in 0..MaxContextLen}
\* Numbers are counted in units of 10^-(MaxContextLen - 2): a context has
\* room for that many decimals after the label and the point.
Unit == 10 ^ (MaxContextLen - 2)

DigitValue(d) == IF d = "5" THEN 5 ELSE 0

\* The longest prefix of s made of characters of the set.
RECURSIVE LeadingRun(_, _)
LeadingRun(s, set) ==
    IF s # <<>> /\ Head(s) \in set
    THEN <<Head(s)>> \o LeadingRun(Tail(s), set)
    ELSE <<>>

\* The value of a digit string as an integer, and as a decimal fraction.
RECURSIVE IntegerPart(_)
IntegerPart(ds) ==
    IF ds = <<>> THEN 0
    ELSE IntegerPart(SubSeq(ds, 1, Len(ds) - 1)) * 10 + DigitValue(ds[Len(ds)])
RECURSIVE FractionPart(_, _)
FractionPart(ds, place) ==
    IF ds = <<>> THEN 0
    ELSE DigitValue(Head(ds)) * (place \div 10) + FractionPart(Tail(ds), place \div 10)

\* parseFloat(s) for s of digits and dots: the longest prefix of the form
\* digits [. digits] with at least one digit; NaN otherwise.
NaN == -1
parseFloat(s) ==
    LET whole == LeadingRun(s, Digits)
        rest == SubSeq(s, Len(whole) + 1, Len(s))
        frac == IF rest # <<>> /\ Head(rest) = "."
                THEN LeadingRun(Tail(rest), Digits)
                ELSE <<>>
    IN  IF whole = <<>> /\ frac = <<>>
        THEN NaN
        ELSE IntegerPart(whole) * Unit + FractionPart(frac, Unit)

\* rubricContext.match(/Puntaje máximo:\s*([\d.]+)/gi): the matches from
\* left to right; a match is kept as the digits and dots it ends in, which
\* is what match.replace(/[^\d.]/g, '') leaves of it.
RECURSIVE Matches(_)
Matches(ctx) ==
    IF ctx = <<>> THEN <<>>
    ELSE IF Head(ctx) = Label
         THEN LET spaces == LeadingRun(Tail(ctx), {" "})
                  after == SubSeq(ctx, 2 + Len(spaces), Len(ctx))
                  numeral == LeadingRun(after, NumeralChars)
              IN  IF numeral = <<>>
                  THEN Matches(Tail(ctx))
                  ELSE <<numeral>>
                           \o Matches(SubSeq(after, Len(numeral) + 1, Len(after)))
         ELSE Matches(Tail(ctx))

\* matches.reduce((sum, match) => sum + (isNaN(score) ? 0 : score), 0)
RECURSIVE SumOfScores(_)
SumOfScores(matches) ==
    IF matches = <<>> THEN 0
    ELSE (IF parseFloat(Head(matches)) = NaN THEN 0 ELSE parseFloat(Head(matches)))
             + SumOfScores(Tail(matches))

\* if (matches && matches.length > 0) return <the sum>; return 20;
\* (The variant falls back to the default whenever the sum is 0.)
DefaultWhenZero(ctx) ==
    IF SumOfScores(Matches(ctx)) # 0
    THEN [value |-> SumOfScores(Matches(ctx)), default |-> FALSE]
    ELSE [value |-> DefaultMaxScore * Unit, default |-> TRUE]
calculateMaxScoreFromContext(ctx) ==
    IF Matches(ctx) # <<>>
    THEN [value |-> SumOfScores(Matches(ctx)), default |-> FALSE]
    ELSE [value |-> DefaultMaxScore * Unit, default |-> TRUE]

InitScore ==
    /\ evalExists = FALSE
    /\ hasSubmission = [g \in Groups |-> FALSE]
    /\ uploadedAt = [g \in Groups |-> {}]
    /\ rubricPdfUrl = [r \in Rubrics |-> FALSE]
    /\ AnalysisIdle
    /\ ChunksIdle
    /\ TextIdle
    /\ UrlIdle
    /\ DocsIdle
    /\ RubricIdle
    /\ ExtrasIdle
    /\ scoreContext \in Contexts
    /\ maxScore = Null

CalculateMaxScore ==
    /\ maxScore = Null
    /\ maxScore' = Some(calculateMaxScoreFromContext(scoreContext))
    /\ UNCHANGED <<analysisVars, chunkVars, textVars, urlVars, docVars, rubricVars, extraVars,
                   scoreContext>>

NextScore == CalculateMaxScore

SpecScore == InitScore /\ [][NextScore]_vars

\* The places where a maximum score stands in the context: a label followed,
\* after any number of blanks, by a digit or a dot; and the number written
\* there, 0 if the digits and dots do not start with a number.
ScorePlaces(ctx) ==
    {i \in 1..Len(ctx) :
        /\ ctx[i] = Label
        /\ \E j \in (i + 1)..Len(ctx) :
              /\ ctx[j] \in NumeralChars
              /\ \A k \in (i + 1)..(j - 1) : ctx[k] = " "}
ScoreAt(ctx, i) ==
    LET j == CHOOSE j \in (i + 1)..Len(ctx) : ctx[j] \in NumeralChars
                 /\ \A k \in (i + 1)..(j - 1) : ctx[k] = " "
        e == CHOOSE e \in j..Len(ctx) :
                 /\ \A k \in j..e : ctx[k] \in NumeralChars
                 /\ e < Len(ctx) => ctx[e + 1] \notin NumeralChars
        score == parseFloat(SubSeq(ctx, j, e))
    IN  IF score = NaN THEN 0 ELSE score
RECURSIVE SumAt(_, _)
SumAt(ctx, places) ==
    IF places = {} THEN 0
    ELSE LET i == CHOOSE i \in places : TRUE
         IN  ScoreAt(ctx, i) + SumAt(ctx, places \ {i})

\* C22: calculateMaxScoreFromContext returns the sum of the numbers at all
\* places where the context names a maximum score, and falls back to the
\* default 20 exactly when there is no such place; a sum of 0 is returned
\* as 0.
C22_SumOrDefault ==
    maxScore # Null =>
        LET places == ScorePlaces(scoreContext)
        IN  /\ maxScore[1].default <=> (places = {})
            /\ places # {} => maxScore[1].value = SumAt(scoreContext, places)
            /\ places = {} => maxScore[1].value = DefaultMaxScore * Unit

\* C22 witness: two occurrences of 5 gave 10.
C22_Witness ==
    /\ maxScore # Null
    /\ Cardinality(ScorePlaces(scoreContext)) = 2
    /\ \A i \in ScorePlaces(scoreContext) : ScoreAt(scoreContext, i) = 5 * Unit
    /\ maxScore[1].value = 10 * Unit

====
